---- MODULE Spec2Model ----
(***************************************************************************)
(* Input Safety Evaluation Engine of AI_INPUT_FIREWALL_&_RESPONSE_SYSTEM.py *)
(* (lines 25-120): rule_based_checks, the lru_cache around                  *)
(* classify_input_with_ollama, generate_ollama_response, is_input_safe and  *)
(* the /check-input handler, served by the uvicorn event loop started at   *)
(* lines 694-702.                                                           *)
(*                                                                          *)
(* Python strings that the code inspects or transforms (texts, raw replies  *)
(* of the two LangChain chains, labels, responses) are sequences of         *)
(* one-character strings, so lower(), upper(), strip(), the substring test  *)
(* and the regular expression are computed, not assumed.  Scores are in     *)
(* hundredths (0.8 is 80, 1.0 is 100).  An Optional value is None or        *)
(* Some(v).  A call's outcome is Return(v) or Raise.                        *)
(***************************************************************************)
EXTENDS Integers, Sequences, FiniteSets, TLC

VARIABLES cache, request, call, first_texts, tracked, use_order,
          insertion_order, stored, running

vars == <<cache, request, call, first_texts, tracked, use_order,
          insertion_order, stored, running>>

None == <<>>

Some(v) == <<v>>

Return(v) == [raised |-> FALSE, value |-> v]

Raise == [raised |-> TRUE]

-----------------------------------------------------------------------------
(* Python str methods *)

LOWERCASE == <<"a", "b", "c", "d", "e", "f", "g", "h", "i", "j", "k", "l", "m", "n", "o", "p", "q", "r", "s", "t", "u", "v", "w", "x", "y", "z">>

UPPERCASE == <<"A", "B", "C", "D", "E", "F", "G", "H", "I", "J", "K", "L", "M", "N", "O", "P", "Q", "R", "S", "T", "U", "V", "W", "X", "Y", "Z">>

DIGITS == <<"0", "1", "2", "3", "4", "5", "6", "7", "8", "9">>

Range(s) == {s[i] : i \in 1..Len(s)}

lower_char(c) ==
    IF \E i \in 1..26 : UPPERCASE[i] = c
    THEN LOWERCASE[CHOOSE i \in 1..26 : UPPERCASE[i] = c]
    ELSE c

upper_char(c) ==
    IF \E i \in 1..26 : LOWERCASE[i] = c
    THEN UPPERCASE[CHOOSE i \in 1..26 : LOWERCASE[i] = c]
    ELSE c

RECURSIVE lower(_)
lower(s) == IF s = <<>> THEN <<>> ELSE <<lower_char(Head(s))>> \o lower(Tail(s))

RECURSIVE upper(_)
upper(s) == IF s = <<>> THEN <<>> ELSE <<upper_char(Head(s))>> \o upper(Tail(s))

\* the whitespace characters of str.strip() and of \s that the texts use
WHITESPACE == {" ", "\t", "\n"}

RECURSIVE lstrip(_)
lstrip(s) == IF s # <<>> /\ Head(s) \in WHITESPACE THEN lstrip(Tail(s)) ELSE s

RECURSIVE rstrip(_)
rstrip(s) ==
    IF s # <<>> /\ s[Len(s)] \in WHITESPACE THEN rstrip(SubSeq(s, 1, Len(s) - 1)) ELSE s

strip(s) == rstrip(lstrip(s))

\* Python's  sub in s
contains(s, sub) ==
    \E i \in 0..(Len(s) - Len(sub)) : SubSeq(s, i + 1, i + Len(sub)) = sub

-----------------------------------------------------------------------------
(* Configuration, lines 25-29 *)

BLOCKLIST ==
    { <<"h", "a", "c", "k">>,
      <<"e", "x", "p", "l", "o", "i", "t">>,
      <<"m", "a", "l", "i", "c", "i", "o", "u", "s">>,
      <<"i", "n", "j", "e", "c", "t">>,
      <<"r", "o", "o", "t">> }

\* the four alternatives KEYWORD\s+KEYWORD of the pattern
SQL_ALTERNATIVES ==
    { << <<"D", "R", "O", "P">>, <<"T", "A", "B", "L", "E">> >>,
      << <<"U", "N", "I", "O", "N">>, <<"S", "E", "L", "E", "C", "T">> >>,
      << <<"I", "N", "S", "E", "R", "T">>, <<"I", "N", "T", "O">> >>,
      << <<"D", "E", "L", "E", "T", "E">>, <<"F", "R", "O", "M">> >> }

\* \w
WORD_CHARS == Range(LOWERCASE) \cup Range(UPPERCASE) \cup Range(DIGITS) \cup {"_"}

is_word_at(s, j) == j \in 1..Len(s) /\ s[j] \in WORD_CHARS

\* \b between s[i] and s[i+1] (i = 0 is the start, i = Len(s) the end)
word_boundary(s, i) == is_word_at(s, i) # is_word_at(s, i + 1)

\* the literal matched without re.IGNORECASE
literal_at_exact(s, p, w) ==
    /\ p + Len(w) <= Len(s)
    /\ SubSeq(s, p + 1, p + Len(w)) = w

\* re.IGNORECASE: the literal w (upper case in the pattern) matches s[p+1..p+Len(w)]
literal_at(s, p, w) ==
    /\ p + Len(w) <= Len(s)
    /\ upper(SubSeq(s, p + 1, p + Len(w))) = w

\* \b(A\s+B)\b matches s starting after offset p
alternative_at(s, p, alt) ==
    LET a == alt[1]
        b == alt[2]
        q == p + Len(a)
    IN  /\ word_boundary(s, p)
        /\ literal_at(s, p, a)
        /\ \E k \in 1..Len(s) :
              /\ q + k <= Len(s)
              /\ \A j \in 1..k : s[q + j] \in WHITESPACE
              /\ literal_at(s, q + k, b)
              /\ word_boundary(s, q + k + Len(b))

\* SQL_INJECTION_REGEX.search(text) is not None
SQL_INJECTION_REGEX(text) ==
    \E p \in 0..Len(text) : \E alt \in SQL_ALTERNATIVES : alternative_at(text, p, alt)

CACHE_SIZE == 2

CONFIDENCE_THRESHOLD == 80

KEYWORD_REASON == "Blocked due to prohibited keyword."

INJECTION_REASON == "SQL injection attempt detected."

CLASSIFIER_REASON == "Ollama classified as unsafe"

REFUSAL == <<"T", "h", "i", "s", " ", "p", "r", "o", "m", "p", "t", " ", "i", "s", " ", "u", "n", "s", "a", "f", "e", ",", " ", "c", "a", "n", "'", "t", " ", "a", "n", "s", "w", "e", "r", ".">>

NO_RESPONSE == <<"N", "o", " ", "r", "e", "s", "p", "o", "n", "s", "e", " ", "g", "e", "n", "e", "r", "a", "t", "e", "d", ".">>

ERROR_RESPONSE == <<"E", "r", "r", "o", "r", " ", "g", "e", "n", "e", "r", "a", "t", "i", "n", "g", " ", "r", "e", "s", "p", "o", "n", "s", "e", ".">>

UNSAFE == <<"U", "N", "S", "A", "F", "E">>

SAFE == <<"S", "A", "F", "E">>

-----------------------------------------------------------------------------
(* The requests and the collaborators' behaviours the model draws from *)

SAFE_TEXTS ==
    { <<"h", "i">>,
      <<"H", "i">>,
      <<>>,
      <<"D", "R", "O", "P", " ", "T", "A", "B", "L", "E", "s">> }

RULE_TEXTS ==
    { <<"H", "a", "C", "k">>,
      <<"u", "p", "r", "o", "o", "t", "e", "d">>,
      <<"d", "r", "o", "p", " ", "\t", "T", "A", "B", "L", "E", " ", "t">>,
      <<"D", "R", "O", "P", " ", "T", "A", "B", "L", "E", " ", "r", "o", "o", "t">> }

TEXTS == SAFE_TEXTS \cup RULE_TEXTS

USER_IDS == {None, Some("alice")}

\* classification_chain.invoke: raises, or replies " unsafe\n", "Safe", "ok"
CLASSIFIER_OUTCOMES ==
    { Raise,
      Return(<<" ", "u", "n", "s", "a", "f", "e", "\n">>),
      Return(<<"S", "a", "f", "e">>),
      Return(<<"o", "k">>) }

\* response_chain.invoke: raises, or replies " ok \n", " \n"
GENERATOR_OUTCOMES ==
    { Raise,
      Return(<<" ", "o", "k", " ", "\n">>),
      Return(<<" ", "\n">>) }

-----------------------------------------------------------------------------
(* rule_based_checks, lines 75-81 *)

\* rule_based_checks searching text itself, not text.lower()
rule_based_checks_case_sensitive(text) ==
    IF \E word \in BLOCKLIST : contains(text, word)
    THEN Some(KEYWORD_REASON)
    ELSE IF SQL_INJECTION_REGEX(text)
         THEN Some(INJECTION_REASON)
         ELSE None

rule_based_checks(text) ==
    LET text_lower == lower(text)
    IN  IF \E word \in BLOCKLIST : contains(text_lower, word)
        THEN Some(KEYWORD_REASON)
        ELSE IF SQL_INJECTION_REGEX(text)
             THEN Some(INJECTION_REASON)
             ELSE None

\* rule_based_checks on the texts of the model, computed once
rule_based_checks_of == [text \in TEXTS |-> rule_based_checks(text)]

-----------------------------------------------------------------------------
(* classify_input_with_ollama, lines 65-73.  outcome is what                *)
(* classification_chain.invoke does in this call: Return(raw reply) or Raise *)

\* the except branch defaulting to SAFE
classify_fail_open(outcome) ==
    IF outcome.raised
    THEN Return([label |-> SAFE, score |-> 0])
    ELSE LET classification == upper(strip(outcome.value))
         IN  Return([label |-> classification,
                     score |-> IF classification = UNSAFE THEN 100 ELSE 0])

\* the reply upper-cased but not stripped
classify_unstripped(outcome) ==
    IF outcome.raised
    THEN Return([label |-> UNSAFE, score |-> 100])
    ELSE LET classification == upper(outcome.value)
         IN  Return([label |-> classification,
                     score |-> IF classification = UNSAFE THEN 100 ELSE 0])

\* every UNSAFE classification scored 0.8, the threshold itself
classify_at_threshold(outcome) ==
    IF outcome.raised
    THEN Return([label |-> UNSAFE, score |-> CONFIDENCE_THRESHOLD])
    ELSE LET classification == upper(strip(outcome.value))
         IN  Return([label |-> classification,
                     score |-> IF classification = UNSAFE
                               THEN CONFIDENCE_THRESHOLD ELSE 0])

classify_input_with_ollama(outcome) ==
    IF outcome.raised
    THEN Return([label |-> UNSAFE, score |-> 100])
    ELSE LET classification == upper(strip(outcome.value))
         IN  Return([label |-> classification,
                     score |-> IF classification = UNSAFE THEN 100 ELSE 0])

\* classify_input_with_ollama on the outcomes of the model, computed once
classify_input_with_ollama_of ==
    [outcome \in CLASSIFIER_OUTCOMES |-> classify_input_with_ollama(outcome)]

(* functools.lru_cache(maxsize=CACHE_SIZE), line 65.  The cache is the      *)
(* sequence of its entries [key, value], least recently used first.         *)

cache_keys(c) == {c[i].key : i \in 1..Len(c)}

\* a lookup that never finds the key
cache_index_never(c, key) == 0

\* the position of key in c, 0 when absent (str keys compare by equality)
cache_index(c, key) ==
    IF \E i \in 1..Len(c) : c[i].key = key
    THEN CHOOSE i \in 1..Len(c) : c[i].key = key
    ELSE 0

\* a hit that leaves the entry where it is (insertion-order eviction)
lru_hit_in_place(c, i) == c

\* a hit moves the entry to the most recently used end
lru_hit(c, i) == SubSeq(c, 1, i - 1) \o SubSeq(c, i + 1, Len(c)) \o <<c[i]>>

\* a miss that stores the result and evicts nothing
lru_insert_keeps_all(c, key, value) == Append(c, [key |-> key, value |-> value])

\* eviction only once the cache already exceeds CACHE_SIZE
lru_insert_off_by_one(c, key, value) ==
    IF Len(c) > CACHE_SIZE
    THEN Append(Tail(c), [key |-> key, value |-> value])
    ELSE Append(c, [key |-> key, value |-> value])

\* a miss stores the result, in place of the least recently used entry when full
lru_insert(c, key, value) ==
    IF Len(c) >= CACHE_SIZE
    THEN Append(Tail(c), [key |-> key, value |-> value])
    ELSE Append(c, [key |-> key, value |-> value])

(* generate_ollama_response, lines 83-89.  outcome is what                  *)
(* response_chain.invoke does in this call                                  *)

\* generate_ollama_response without its try/except
generate_uncaught(outcome) ==
    IF outcome.raised
    THEN Raise
    ELSE LET response == strip(outcome.value)
         IN  Return(IF response # <<>> THEN response ELSE NO_RESPONSE)

generate_ollama_response(outcome) ==
    IF outcome.raised
    THEN Return(ERROR_RESPONSE)
    ELSE LET response == strip(outcome.value)
         IN  Return(IF response # <<>> THEN response ELSE NO_RESPONSE)

\* generate_ollama_response on the outcomes of the model, computed once
generate_ollama_response_of ==
    [outcome \in GENERATOR_OUTCOMES |-> generate_ollama_response(outcome)]

(* FirewallResponse, lines 38-42: a key the dict lacks takes the default None *)

FirewallResponse(d) ==
    [status |-> d.status,
     reason |-> IF "reason" \in DOMAIN d THEN d.reason ELSE None,
     score |-> IF "score" \in DOMAIN d THEN d.score ELSE None,
     response |-> IF "response" \in DOMAIN d THEN d.response ELSE None]

-----------------------------------------------------------------------------
(* State.  cache is the lru_cache of classify_input_with_ollama; request is  *)
(* the last UserRequest and call the record of how /check-input handled it.  *)
(* The rest is history: first_texts, the texts classified since the start    *)
(* while they are all distinct and at most CACHE_SIZE + 1; and, where        *)
(* tracked, use_order and insertion_order, the cached texts by last use and  *)
(* by insertion.  call.evicted is the set of texts the call dropped from the *)
(* cache, call.oldest and call.least_recent the heads of insertion_order and *)
(* use_order when the call began.                                            *)

NoCall ==
    [done |-> FALSE,
     classifier |-> None, ai_result |-> None,
     generator |-> None, generated |-> None,
     raised |-> FALSE, response |-> None, evicted |-> {},
     oldest |-> None, least_recent |-> None]

Start ==
    /\ cache = <<>>
    /\ request = [text |-> <<>>, user_id |-> None]
    /\ call = NoCall
    /\ first_texts = [live |-> TRUE, texts |-> <<>>]
    /\ use_order = <<>>
    /\ insertion_order = <<>>
    /\ running = None

\* stored.by is a history of the entries now in the cache: for each key the
\* caller whose request stored the entry (kept while stored.callers, None
\* otherwise) and whether the classification chain raised in that call (kept
\* while stored.failures, FALSE otherwise)
NotStored == [callers |-> FALSE, failures |-> FALSE, by |-> {}]

Init == Start /\ tracked = FALSE /\ stored = NotStored

InitHistory == Start /\ tracked = TRUE /\ stored = NotStored

\* the empty cache with the history stored.by kept as callers and failures say
StartStored(callers, failures) ==
    /\ cache = <<>>
    /\ request = [text |-> <<>>, user_id |-> None]
    /\ call = NoCall
    /\ first_texts = [live |-> FALSE, texts |-> <<>>]
    /\ use_order = <<>>
    /\ insertion_order = <<>>
    /\ running = None
    /\ tracked = FALSE
    /\ stored = [callers |-> callers, failures |-> failures, by |-> {}]

InitFailures == StartStored(FALSE, TRUE)

InitCallers == StartStored(TRUE, FALSE)

\* stored.by after the call of request' for text left the cache c
stored_after(text, c, classifier) ==
    LET kept == {e \in stored.by :
                    e.text \in cache_keys(c) /\ (classifier = None \/ e.text # text)}
    IN  IF classifier = None \/ text \notin cache_keys(c)
        THEN kept
        ELSE kept \cup
             {[text |-> text,
               user_id |-> IF stored.callers THEN request'.user_id ELSE None,
               failed |-> stored.failures /\ classifier = Some(Raise)]}

first_of(order) == IF order = <<>> THEN None ELSE Some(Head(order))

\* the texts of order that are still keys, then text
moved_to_end(order, keys, text) ==
    Append(SelectSeq(order, LAMBDA k : k \in keys /\ k # text), text)

\* the texts of order that are still keys, then text when it is new
added_at_end(order, keys, text) ==
    IF text \in Range(order) /\ text \in keys
    THEN SelectSeq(order, LAMBDA k : k \in keys)
    ELSE Append(SelectSeq(order, LAMBDA k : k \in keys /\ k # text), text)

\* the call for text ends: is_input_safe leaves the cache c and returns or
\* raises result.  classifier and generator are the outcomes of the calls made
\* to the two chains (None: not invoked), ai_result the classification used,
\* generated what generate_ollama_response returned.  Lines 118-120.
returned(text, c, classifier, ai_result, generator, generated, result) ==
    /\ cache' = c
    /\ call' = [done |-> TRUE,
                classifier |-> classifier, ai_result |-> ai_result,
                generator |-> generator, generated |-> generated,
                raised |-> result.raised,
                response |-> IF result.raised THEN None
                             ELSE Some(FirewallResponse(result.value)),
                evicted |-> cache_keys(cache) \ cache_keys(c),
                oldest |-> first_of(insertion_order),
                least_recent |-> first_of(use_order)]
    /\ running' = None
    /\ stored' =
          IF stored.callers \/ stored.failures
          THEN [stored EXCEPT !.by = stored_after(text, c, classifier)]
          ELSE stored
    /\ tracked' = tracked
    /\ use_order' =
          IF ai_result = None \/ ~tracked THEN use_order
          ELSE moved_to_end(use_order, cache_keys(c), text)
    /\ insertion_order' =
          IF ai_result = None \/ ~tracked THEN insertion_order
          ELSE added_at_end(insertion_order, cache_keys(c), text)
    /\ first_texts' =
          IF ai_result = None THEN first_texts
          ELSE IF /\ first_texts.live
                  /\ Len(first_texts.texts) <= CACHE_SIZE
                  /\ text \notin Range(first_texts.texts)
               THEN [live |-> TRUE, texts |-> Append(first_texts.texts, text)]
               ELSE [live |-> FALSE, texts |-> <<>>]

(* is_input_safe, lines 91-113 *)

\* line 101 with >= for >
over_threshold_inclusive(ai_result) ==
    ai_result.label = UNSAFE /\ ai_result.score >= CONFIDENCE_THRESHOLD

\* line 101
over_threshold(ai_result) ==
    ai_result.label = UNSAFE /\ ai_result.score > CONFIDENCE_THRESHOLD

\* lines 101-113 with the response generated before the threshold test
decide_generates_first(text, c, classifier, ai_result) ==
    \E gen_outcome \in GENERATOR_OUTCOMES :
        LET response == generate_ollama_response_of[gen_outcome]
        IN  IF response.raised
            THEN returned(text, c, classifier, Some(ai_result),
                          Some(gen_outcome), None, Raise)
            ELSE IF over_threshold(ai_result)
            THEN returned(text, c, classifier, Some(ai_result),
                          Some(gen_outcome), Some(response.value),
                          Return([status |-> "blocked",
                                  reason |-> Some(CLASSIFIER_REASON),
                                  score |-> Some(ai_result.score),
                                  response |-> Some(REFUSAL)]))
            ELSE returned(text, c, classifier, Some(ai_result),
                          Some(gen_outcome), Some(response.value),
                          Return([status |-> "allowed",
                                  score |-> Some(ai_result.score),
                                  response |-> Some(response.value)]))

\* lines 101-113, with the classification ai_result and the cache c
decide(text, c, classifier, ai_result) ==
    IF over_threshold(ai_result)
    THEN returned(text, c, classifier, Some(ai_result), None, None,
                  Return([status |-> "blocked",
                          reason |-> Some(CLASSIFIER_REASON),
                          score |-> Some(ai_result.score),
                          response |-> Some(REFUSAL)]))
    ELSE \E gen_outcome \in GENERATOR_OUTCOMES :
            LET response == generate_ollama_response_of[gen_outcome]
            IN  IF response.raised
                THEN returned(text, c, classifier, Some(ai_result),
                              Some(gen_outcome), None, Raise)
                ELSE returned(text, c, classifier, Some(ai_result),
                              Some(gen_outcome), Some(response.value),
                              Return([status |-> "allowed",
                                      score |-> Some(ai_result.score),
                                      response |-> Some(response.value)]))

\* a cache kept per caller: an entry is found only by the caller that stored
\* it, and a miss replaces the entry of the text
lru_cache_per_caller(text) ==
    LET i == cache_index(cache, text)
        own == \E e \in stored.by :
                  e.text = text /\ e.user_id = request'.user_id
        others == SelectSeq(cache, LAMBDA entry : entry.key # text)
    IN  IF i # 0 /\ own
        THEN decide(text, lru_hit(cache, i), None, cache[i].value)
        ELSE \E cls_outcome \in CLASSIFIER_OUTCOMES :
                LET r == classify_input_with_ollama_of[cls_outcome]
                IN  IF r.raised
                    THEN returned(text, cache, Some(cls_outcome), None, None, None, Raise)
                    ELSE decide(text, lru_insert(others, text, r.value),
                                Some(cls_outcome), r.value)

\* a cache that stores a result only when the classification chain replied
lru_cache_skips_failures(text) ==
    LET i == cache_index(cache, text)
    IN  IF i # 0
        THEN decide(text, lru_hit(cache, i), None, cache[i].value)
        ELSE \E cls_outcome \in CLASSIFIER_OUTCOMES :
                LET r == classify_input_with_ollama_of[cls_outcome]
                IN  IF r.raised
                    THEN returned(text, cache, Some(cls_outcome), None, None, None, Raise)
                    ELSE decide(text,
                                IF cls_outcome.raised THEN cache
                                ELSE lru_insert(cache, text, r.value),
                                Some(cls_outcome), r.value)

\* line 100: the call of the decorated classify_input_with_ollama.  A hit
\* returns the stored result; a miss calls the function and stores what it
\* returns (nothing when it raises).
lru_cache(text) ==
    LET i == cache_index(cache, text)
    IN  IF i # 0
        THEN decide(text, lru_hit(cache, i), None, cache[i].value)
        ELSE \E cls_outcome \in CLASSIFIER_OUTCOMES :
                LET r == classify_input_with_ollama_of[cls_outcome]
                IN  IF r.raised
                    THEN returned(text, cache, Some(cls_outcome), None, None, None, Raise)
                    ELSE decide(text, lru_insert(cache, text, r.value),
                                Some(cls_outcome), r.value)

is_input_safe(text) ==
    LET rule_based_reason == rule_based_checks_of[text]
    IN  IF rule_based_reason # None
        THEN returned(text, cache, None, None, None, None,
                      Return([status |-> "blocked",
                              reason |-> rule_based_reason,
                              score |-> None,
                              response |-> Some(REFUSAL)]))
        ELSE lru_cache(text)

\* check_input, lines 116-120: one request handled from start to end (the
\* handler is a coroutine that never awaits, so the event loop runs it whole)
check_input(req) ==
    /\ request' = req
    /\ is_input_safe(req.text)

Next ==
    \E text \in TEXTS, user_id \in USER_IDS :
        check_input([text |-> text, user_id |-> user_id])

Spec == Init /\ [][Next]_vars

SpecHistory == InitHistory /\ [][Next]_vars

SpecFailures == InitFailures /\ [][Next]_vars

\* two callers sending the same few texts
CALLER_TEXTS == {<<"h", "i">>, <<"H", "i">>, <<"H", "a", "C", "k">>}

NextCallers ==
    \E text \in CALLER_TEXTS, user_id \in USER_IDS :
        check_input([text |-> text, user_id |-> user_id])

SpecCallers == InitCallers /\ [][NextCallers]_vars

-----------------------------------------------------------------------------
(* The server of lines 694-702: uvicorn.run(app) in one thread, hence one    *)
(* event loop.  check_input is a coroutine function that awaits nothing and  *)
(* calls the synchronous is_input_safe, so the loop runs one handler at a    *)
(* time and stays inside it while classification_chain.invoke or             *)
(* response_chain.invoke waits for Ollama.  running is the request whose     *)
(* handler is inside such a call, None when the loop is free.                *)

InitServer == StartStored(FALSE, FALSE)

\* is_input_safe(text) reaches an invoke: no rule blocks text and its
\* classification is not a stored one that blocks it
calls_out(text) ==
    /\ rule_based_checks_of[text] = None
    /\ LET i == cache_index(cache, text)
       IN  IF i = 0 THEN TRUE ELSE ~over_threshold(cache[i].value)

\* the free loop runs the handler of req, which goes into an invoke
blocked_in_invoke(req) ==
    /\ running = None
    /\ calls_out(req.text)
    /\ running' = Some(req)
    /\ UNCHANGED <<cache, request, call, first_texts, tracked, use_order,
                   insertion_order, stored>>

\* the invokes of the running handler return or raise and the handler ends
resumed ==
    /\ running # None
    /\ check_input(running[1])

\* the free loop runs the handler of req, which ends without any invoke
answered_at_once(req) ==
    /\ running = None
    /\ ~calls_out(req.text)
    /\ check_input(req)

\* the loop takes up the request req
taken_up(req) == blocked_in_invoke(req) \/ answered_at_once(req)

NextServer ==
    \/ \E text \in TEXTS, user_id \in USER_IDS :
          blocked_in_invoke([text |-> text, user_id |-> user_id])
    \/ \E text \in TEXTS, user_id \in USER_IDS :
          answered_at_once([text |-> text, user_id |-> user_id])
    \/ resumed

SpecServer == InitServer /\ [][NextServer]_vars

-----------------------------------------------------------------------------
(* The decision of lines 101-113 on an arbitrary Classification Result: the  *)
(* classifier is a stub that returns any label with any score, as a test     *)
(* double would.                                                             *)

STUB_LABELS == {UNSAFE, SAFE, <<"O", "K">>}

STUB_SCORES == 0..100

InitDecide ==
    /\ Start
    /\ tracked = FALSE
    /\ stored = NotStored

stubbed(text, ai_result) ==
    /\ request' = [text |-> text, user_id |-> None]
    /\ decide(text, cache, None, ai_result)

NextDecide ==
    /\ ~call.done
    /\ \E text \in SAFE_TEXTS, label \in STUB_LABELS, score \in STUB_SCORES :
          stubbed(text, [label |-> label, score |-> score])

SpecDecide == InitDecide /\ [][NextDecide]_vars

-----------------------------------------------------------------------------
(* Properties *)

verdict == call.response[1]

answered == call.done /\ ~call.raised

classifier_failed == call.classifier = Some(Raise)

generator_failed == call.generator = Some(Raise)

\* C1 (fail-closed): when the classification chain raises during a call whose
\* text matches no rule, the call returns a verdict BLOCKED with score 1.0,
\* nothing propagates to the caller and the generator is not invoked.
C1_FailClosed ==
    (call.done /\ classifier_failed) =>
        /\ ~call.raised
        /\ verdict.status = "blocked"
        /\ verdict.score = Some(100)
        /\ call.generator = None

C1_Witness ==
    /\ call.done
    /\ classifier_failed
    /\ rule_based_checks_of[request.text] = None

\* some blocklisted term occurs in text, each letter in either case
contains_term_any_case(text) ==
    \E word \in BLOCKLIST : \E i \in 0..(Len(text) - Len(word)) :
        \A j \in 1..Len(word) : text[i + j] \in {word[j], upper_char(word[j])}

TEXTS_WITH_TERM == {text \in TEXTS : contains_term_any_case(text)}

\* C2: a call for a text containing a blocklisted term in any letter case
\* returns BLOCKED with the keyword reason, does not invoke the classifier and
\* leaves the cache as it was.
C2_KeywordShortCircuit ==
    [][(call'.done /\ request'.text \in TEXTS_WITH_TERM) =>
          /\ ~call'.raised
          /\ call'.response[1].status = "blocked"
          /\ call'.response[1].reason = Some(KEYWORD_REASON)
          /\ call'.classifier = None
          /\ cache' = cache]_vars

C2_Witness ==
    /\ call.done
    /\ request.text = <<"H", "a", "C", "k">>
    /\ verdict.reason = Some(KEYWORD_REASON)
    /\ Len(cache) = CACHE_SIZE

\* C3: every BLOCKED verdict has a non-empty reason and the fixed refusal as
\* its response, and the generator was not invoked in that call; every ALLOWED
\* verdict has no reason and its response is what generate_ollama_response
\* returned in that call.
C3_VerdictWellFormed ==
    call.done =>
        /\ ~call.raised
        /\ verdict.status \in {"allowed", "blocked"}
        /\ verdict.status = "blocked" =>
              /\ verdict.reason # None
              /\ verdict.reason[1] # ""
              /\ verdict.response = Some(REFUSAL)
              /\ call.generator = None
        /\ verdict.status = "allowed" =>
              /\ verdict.reason = None
              /\ call.generator # None
              /\ call.generated # None
              /\ verdict.response = call.generated

C3_Witness ==
    /\ answered
    /\ verdict.status = "blocked"
    /\ verdict.reason = Some(CLASSIFIER_REASON)
    /\ call.classifier = None

\* C4: for a text with no rule match the verdict is BLOCKED exactly when the
\* classification is UNSAFE with a score strictly above 0.8: (UNSAFE, 0.81) is
\* BLOCKED, (UNSAFE, 0.80) is ALLOWED, every SAFE classification is ALLOWED;
\* either way the verdict carries the classification's score.
C4_StrictThreshold ==
    call.done =>
        /\ ~call.raised
        /\ call.ai_result # None
        /\ LET ai == call.ai_result[1]
           IN  /\ verdict.status = "blocked" <=> (ai.label = UNSAFE /\ ai.score > 80)
               /\ verdict.status \in {"allowed", "blocked"}
               /\ verdict.score = Some(ai.score)
               /\ (ai.label = UNSAFE /\ ai.score = 81) => verdict.status = "blocked"
               /\ (ai.label = UNSAFE /\ ai.score = 80) => verdict.status = "allowed"
               /\ ai.label = SAFE => verdict.status = "allowed"

C4_Witness ==
    /\ answered
    /\ call.ai_result = Some([label |-> UNSAFE, score |-> 80])
    /\ verdict.status = "allowed"
    /\ verdict.score = Some(80)

\* C5: when the generation chain raises after the decision ALLOWED, the call
\* still returns ALLOWED with the fixed error response; nothing propagates,
\* the verdict is not BLOCKED, and its score is the classification's.
C5_GeneratorFailureAllowed ==
    (call.done /\ generator_failed) =>
        /\ ~call.raised
        /\ verdict.status = "allowed"
        /\ verdict.response = Some(ERROR_RESPONSE)
        /\ verdict.reason = None
        /\ call.ai_result # None
        /\ verdict.score = Some(call.ai_result[1].score)

C5_Witness ==
    /\ answered
    /\ generator_failed
    /\ verdict.response = Some(ERROR_RESPONSE)

hit == call.done /\ call.ai_result # None /\ call.classifier = None

\* C6 (cache hit): a call for a text whose entry is in the cache does not
\* invoke the classification chain and uses the stored result, and an entry
\* keeps the result first stored for as long as it stays in the cache.
C6_CacheHit ==
    [][\A i \in 1..Len(cache) :
          /\ \A j \in 1..Len(cache') :
                cache'[j].key = cache[i].key => cache'[j].value = cache[i].value
          /\ (call'.done /\ request'.text = cache[i].key) =>
                /\ call'.classifier = None
                /\ call'.ai_result = Some(cache[i].value)
                /\ cache[i].key \in cache_keys(cache')]_vars

C6_Witness ==
    /\ hit
    /\ \E i \in 1..Len(cache) :
          cache[i].key = request.text /\ call.ai_result = Some(cache[i].value)

\* CACHE_SIZE + 1 distinct texts have been classified since the start
overflowed == first_texts.live /\ Len(first_texts.texts) = CACHE_SIZE + 1

\* C7 (eviction at capacity): from the empty cache, classifying CACHE_SIZE + 1
\* distinct texts evicts the first of them and no other (nothing is evicted
\* before the last one, which evicts exactly the first); the next call for
\* the first text is a miss and the next call for any of the others a hit.
C7_EvictsFirstInserted ==
    [][/\ (first_texts' # first_texts /\ first_texts'.live /\ ~overflowed') =>
             /\ call'.evicted = {}
             /\ cache_keys(cache') = Range(first_texts'.texts)
       /\ (~overflowed /\ overflowed') =>
             /\ call'.evicted = {first_texts'.texts[1]}
             /\ cache_keys(cache') = Range(Tail(first_texts'.texts))
             /\ Len(cache') = CACHE_SIZE
       /\ (overflowed /\ call'.done /\ first_texts' # first_texts) =>
             /\ request'.text = first_texts.texts[1] => call'.classifier # None
             /\ request'.text \in Range(Tail(first_texts.texts)) =>
                   call'.classifier = None]_vars

C7_Witness ==
    /\ overflowed
    /\ call.evicted = {first_texts.texts[1]}
    /\ request.text = first_texts.texts[CACHE_SIZE + 1]

\* C8 as claimed (eviction by insertion order): the entry evicted when a new
\* text overflows the cache is the one inserted earliest among those present,
\* whatever hits there were since.
C8_InsertionOrderEviction ==
    call.evicted # {} => (call.oldest # None /\ call.evicted = {call.oldest[1]})

\* C8 as amended (eviction by recency of use): the entry evicted when a new
\* text overflows the cache is the one least recently used (inserted or hit)
\* among those present; a hit moves its entry to the most recent end, so the
\* eviction order is the order of last use.
C8_LeastRecentlyUsedEviction ==
    tracked =>
        /\ call.evicted # {} =>
              (call.least_recent # None /\ call.evicted = {call.least_recent[1]})
        /\ hit => (cache # <<>> /\ cache[Len(cache)].key = request.text)
        /\ Len(use_order) = Len(cache)
        /\ \A i \in 1..Len(cache) : cache[i].key = use_order[i]

C8_Witness ==
    /\ tracked
    /\ call.evicted # {}
    /\ call.oldest # None
    /\ call.oldest[1] \notin call.evicted
    /\ call.least_recent # None
    /\ call.least_recent[1] \in call.evicted

\* label is raw without its leading and trailing whitespace, in upper case
is_trimmed_upper_of(label, raw) ==
    \E i \in 0..Len(raw), j \in 0..Len(raw) :
        /\ i + j <= Len(raw)
        /\ Len(label) = Len(raw) - i - j
        /\ \A k \in 1..i : raw[k] \in WHITESPACE
        /\ \A k \in (Len(raw) - j + 1)..Len(raw) : raw[k] \in WHITESPACE
        /\ \A k \in 1..Len(label) : label[k] = upper_char(raw[i + k])
        /\ label # <<>> =>
              (label[1] \notin WHITESPACE /\ label[Len(label)] \notin WHITESPACE)

replied == call.done /\ call.classifier # None /\ ~call.classifier[1].raised

\* C9 as claimed: the classification of a raw reply is (UNSAFE, 1.0) when the
\* trimmed, upper-cased reply is exactly UNSAFE and (SAFE, 0.0) otherwise, so
\* every Classification Result, cached ones included, has a label that is SAFE
\* or UNSAFE and a score within [0.0, 1.0].
C9_LabelSafeOrUnsafe ==
    /\ \A i \in 1..Len(cache) :
          /\ cache[i].value.label \in {SAFE, UNSAFE}
          /\ cache[i].value.score \in 0..100
    /\ replied =>
          /\ call.ai_result # None
          /\ call.ai_result[1] =
                IF is_trimmed_upper_of(UNSAFE, call.classifier[1].value)
                THEN [label |-> UNSAFE, score |-> 100]
                ELSE [label |-> SAFE, score |-> 0]

unsafe_iff_full_score(r) ==
    /\ r.score \in {0, 100}
    /\ r.score = 100 <=> r.label = UNSAFE

\* C9 as amended: the label of the classification of a raw reply is the
\* trimmed, upper-cased reply itself, with score 1.0 when that is exactly
\* UNSAFE and 0.0 otherwise; so in every Classification Result, cached ones
\* included, the score is 0.0 or 1.0, and 1.0 exactly when the label is UNSAFE
\* (a label other than UNSAFE need not be SAFE).
C9_LabelIsNormalisedReply ==
    /\ \A i \in 1..Len(cache) : unsafe_iff_full_score(cache[i].value)
    /\ call.ai_result # None => unsafe_iff_full_score(call.ai_result[1])
    /\ replied =>
          /\ call.ai_result # None
          /\ is_trimmed_upper_of(call.ai_result[1].label, call.classifier[1].value)

C9_Witness ==
    /\ replied
    /\ call.classifier[1].value = <<" ", "u", "n", "s", "a", "f", "e", "\n">>
    /\ call.ai_result = Some([label |-> UNSAFE, score |-> 100])
    /\ \E i \in 1..Len(cache) : cache[i].value.label = <<"O", "K">>

\* text holds one of the four keyword pairs, each letter in either case, the
\* two keywords separated by whitespace, with no word character right before
\* or right after
matches_sql_pattern(text) ==
    \E alt \in SQL_ALTERNATIVES :
    \E i \in 0..Len(text), k \in 1..Len(text) :
        LET a == alt[1]
            b == alt[2]
            end == i + Len(a) + k + Len(b)
        IN  /\ end <= Len(text)
            /\ i = 0 \/ text[i] \notin WORD_CHARS
            /\ \A j \in 1..Len(a) : text[i + j] \in {a[j], lower_char(a[j])}
            /\ \A j \in 1..k : text[i + Len(a) + j] \in WHITESPACE
            /\ \A j \in 1..Len(b) :
                  text[i + Len(a) + k + j] \in {b[j], lower_char(b[j])}
            /\ end = Len(text) \/ text[end + 1] \notin WORD_CHARS

TEXTS_WITH_SQL == {text \in TEXTS : matches_sql_pattern(text)}

\* C10 as claimed: a call for a text matching the SQL-injection pattern,
\* whatever else the text contains, returns BLOCKED with the injection
\* reason, which differs from the keyword reason.
C10_InjectionReasonAlways ==
    (call.done /\ request.text \in TEXTS_WITH_SQL) =>
        /\ ~call.raised
        /\ verdict.status = "blocked"
        /\ verdict.reason = Some(INJECTION_REASON)
        /\ INJECTION_REASON # KEYWORD_REASON

\* C10 as amended: a call for a text matching the SQL-injection pattern
\* returns BLOCKED; its reason is the injection reason when the text contains
\* no blocklisted term and the keyword reason when it does (the blocklist is
\* tested first); the two reasons differ.
C10_InjectionReasonUnlessKeyword ==
    (call.done /\ request.text \in TEXTS_WITH_SQL) =>
        /\ ~call.raised
        /\ verdict.status = "blocked"
        /\ verdict.reason =
              IF request.text \in TEXTS_WITH_TERM
              THEN Some(KEYWORD_REASON)
              ELSE Some(INJECTION_REASON)
        /\ INJECTION_REASON # KEYWORD_REASON

C10_Witness ==
    /\ answered
    /\ request.text = <<"d", "r", "o", "p", " ", "\t", "T", "A", "B", "L", "E", " ", "t">>
    /\ verdict.reason = Some(INJECTION_REASON)

\* the call of user_id for text can, from this cache, use the collaborators
\* as the call result did, return its verdict and leave the cache c
same_outcome_for(user_id, text, result, c) ==
    ENABLED (/\ check_input([text |-> text, user_id |-> user_id])
             /\ call' = result
             /\ cache' = c)

\* C11: the cache is shared by all callers and the caller never influences
\* the outcome.  What a call does (collaborators invoked, result used,
\* verdict, cache left) is what the call of any other caller for the same
\* text would do from the same cache with the same collaborator replies; and
\* a call for a text whose classification is in the cache, whoever stored
\* it, uses the stored result without invoking the classification chain.
C11_CallerBlind ==
    [][ call'.done =>
          /\ \A user_id \in USER_IDS :
                \E text \in {request'.text}, result \in {call'}, c \in {cache'} :
                    same_outcome_for(user_id, text, result, c)
          /\ \A e \in stored.by :
                e.text = request'.text =>
                    /\ call'.classifier = None
                    /\ \E i \in 1..Len(cache) :
                          /\ cache[i].key = e.text
                          /\ call'.ai_result = Some(cache[i].value)
      ]_vars

\* a hit on an entry that the request of another caller stored
C11_Witness ==
    /\ hit
    /\ \E e \in stored.by :
          e.text = request.text /\ e.user_id # request.user_id

\* the keys of the cache in the order of eviction, next to go first
eviction_order(c) == [i \in 1..Len(c) |-> c[i].key]

C13_OtherTextNotBlocked ==
    running # None =>
        \A text \in TEXTS \ {running[1].text}, user_id \in USER_IDS :
            ENABLED taken_up([text |-> text, user_id |-> user_id])

FAIL_CLOSED == [label |-> UNSAFE, score |-> 100]

\* the entries of the cache that were stored by a call in which the
\* classification chain raised
stored_failures == {e \in stored.by : e.failed}

\* C14: the fail-closed default is stored like any other result.  A call in
\* which the classification chain raises leaves (UNSAFE, 1.0) in the cache
\* under its text, and as long as that entry is in the cache every call for
\* the text is blocked with score 1.0 without invoking the classification
\* chain, whatever the chain would reply now; the entry stays until it is
\* evicted.
C14_FailureIsCached ==
    [][ call'.done =>
          /\ \A e \in stored_failures : e.text \in cache_keys(cache)
          /\ call'.classifier = Some(Raise) =>
                /\ cache' # <<>>
                /\ cache'[Len(cache')] =
                      [key |-> request'.text, value |-> FAIL_CLOSED]
                /\ \E e \in stored_failures' : e.text = request'.text
          /\ \A e \in stored_failures :
                /\ e.text = request'.text =>
                      /\ call'.classifier = None
                      /\ call'.ai_result = Some(FAIL_CLOSED)
                      /\ ~call'.raised
                      /\ call'.response[1].status = "blocked"
                      /\ call'.response[1].score = Some(100)
                /\ e \in stored_failures' \/ e.text \in call'.evicted
      ]_vars

\* a hit on an entry stored by a failed classification, in a full cache
C14_Witness ==
    /\ hit
    /\ \E e \in stored_failures : e.text = request.text
    /\ verdict.status = "blocked"
    /\ verdict.score = Some(100)
    /\ Len(cache) = CACHE_SIZE

\* the call was blocked by rule_based_checks, before any classification
blocked_by_rule == answered /\ call.ai_result = None

\* the call was blocked at line 101, on the classification
blocked_by_classifier ==
    /\ answered
    /\ call.ai_result # None
    /\ verdict.status = "blocked"

\* C15: the classifier only produces the scores 0.0 and 1.0, so in every
\* verdict the score is absent exactly when a rule blocked the text, is 1.0
\* exactly when the classification blocked it and is 0.0 when the text is
\* allowed; a text that matches no rule is blocked exactly when the label of
\* its classification is UNSAFE, that is, when the classifier's reply was
\* UNSAFE once trimmed and upper-cased or the classification call failed,
\* and the comparison with the threshold changes nothing.
C15_ScoreTellsTheStage ==
    call.done =>
        /\ ~call.raised
        /\ blocked_by_rule <=>
              request.text \in TEXTS_WITH_TERM \cup TEXTS_WITH_SQL
        /\ verdict.score = None <=> blocked_by_rule
        /\ verdict.score = Some(100) <=> blocked_by_classifier
        /\ verdict.status = "allowed" => verdict.score = Some(0)
        /\ ~blocked_by_rule =>
              /\ verdict.status = "blocked" <=> call.ai_result[1].label = UNSAFE
              /\ call.classifier # None =>
                    (verdict.status = "blocked" <=>
                        \/ classifier_failed
                        \/ /\ ~classifier_failed
                           /\ is_trimmed_upper_of(UNSAFE, call.classifier[1].value))

\* a hit on a stored UNSAFE classification, blocked with score 1.0, after
\* which the cache also holds a classification with another label
C15_Witness ==
    /\ hit
    /\ blocked_by_classifier
    /\ verdict.score = Some(100)
    /\ \E i \in 1..Len(cache) : cache[i].value.score = 0

====
